---- MODULE Spec2Model ----
(***************************************************************************)
(* A model of ogmready (src/ogmready.py): the Mapping hierarchy            *)
(* (DataPropertyMapping, ObjectPropertyMapping, ListMapping) and the       *)
(* Mapper that encodes domain objects into an ontology (to_owl) and        *)
(* decodes them again (from_owl).                                          *)
(*                                                                         *)
(* Domain objects live in a heap (Python references), so that an object    *)
(* graph may contain a cycle.  The ontology is a sequence of individuals;  *)
(* an individual's handle is its position.  Every property of an           *)
(* individual holds a set of values (the triples of the store): a          *)
(* functional property holds at most one.  The store yields the matches of *)
(* a search, and the values of a multi-valued property, in an order of its *)
(* own: the order is an input of every operation (StoreOrders).            *)
(*                                                                         *)
(* A Python exception is a status other than "ok" that every caller        *)
(* passes on, except where the code catches it.  The interpreter's         *)
(* recursion limit is MaxDepth.                                            *)
(***************************************************************************)
EXTENDS Integers, Sequences, FiniteSets, TLC

VARIABLES
  cfg,      \* the mapper configuration of the run: which fields are keys, table order
  onto,     \* the ontology: the sequence of individuals
  ncalls,   \* the number of Mapper.to_owl calls made so far
  call,     \* the record of the last Mapper.to_owl call
  decoded,  \* the result of Mapper.from_owl on the handle the last call returned
  procs     \* the two interleaved to_owl calls of the race specification

vars == <<cfg, onto, ncalls, call, decoded, procs>>

----------------------------------------------------------------------------
(* Bounds of the model.                                                    *)

\* The most individuals the ontology may hold: a call that would pass it is not made.
MaxInd == 9

\* The most Mapper.to_owl calls of a run.
MaxCalls == 3

\* The most operations of a run once a method of a mapping is called by itself.
MaxDirect == 2

\* The interpreter's recursion limit, counted in nested Mapper.to_owl / from_owl frames.
MaxDepth == 3

----------------------------------------------------------------------------
(* Values.                                                                 *)

\* Python's None where a reference (an object, an individual) is expected.
None == 0

\* Python's None where a string is expected.
NoneStr == "None"

\* Python's None where an integer (a list index) is expected.
NoneInt == -1

Range(s) == {s[i] : i \in DOMAIN s}

\* A Python set and a Python list of domain objects: elems are the elements in
\* the order an iteration yields them.  The two are never equal.
PySet(elems) == [kind |-> "set", elems |-> elems]

PyList(elems) == [kind |-> "list", elems |-> elems]

\* The value of a Python set and of a Python list, as == compares them: a set
\* by its members, a list by its elements in their order.
SetValue(members) == [kind |-> "set", elems |-> <<>>, members |-> members]

ListValue(elems) == [kind |-> "list", elems |-> elems, members |-> {}]

\* dict assignment d[k] = v
Put(d, k, v) == [x \in (DOMAIN d) \cup {k} |-> IF x = k THEN v ELSE d[x]]

EmptyDict == [x \in {} |-> 0]

\* The orders in which the store (and a Python set) may yield its elements.
StoreOrders == {"asc", "desc"}

RECURSIVE Iterate(_, _)
\* The elements of a set of handles as the sequence an iteration over it yields.
Iterate(S, ord) ==
  IF S = {} THEN <<>>
  ELSE LET x == IF ord = "asc"
                THEN CHOOSE y \in S : \A z \in S : y <= z
                ELSE CHOOSE y \in S : \A z \in S : y >= z
       IN <<x>> \o Iterate(S \ {x}, ord)

RECURSIVE Enumerations(_)
\* Every sequence that enumerates the set S once.
Enumerations(S) ==
  IF S = {} THEN {<<>>}
  ELSE UNION {{<<x>> \o p : p \in Enumerations(S \ {x})} : x \in S}

----------------------------------------------------------------------------
(* The domain objects (the dataclasses of src/tests/test_unit.py, with the *)
(* fields the three mapping kinds need).  @dataclass gives a class __eq__  *)
(* and no __hash__, unless the class defines __hash__ itself: whether the  *)
(* Person class does is part of the configuration of a run.  Objects of a  *)
(* class without __hash__ cannot be elements of a set: friends that are    *)
(* there come as a list, and only an empty friends field can be a set.     *)

\* A domain class: its name, and whether its objects can be hashed.
DataClass(name, hashable) == [name |-> name, hashable |-> hashable]

Dog(name, colors) ==
  [class |-> "Dog", fields |-> [name |-> name, colors |-> colors]]

Car(model, plate) ==
  [class |-> "Car", fields |-> [model |-> model, plate |-> plate]]

Person(name, dog, friends, cars) ==
  [class |-> "Person",
   fields |-> [name |-> name, dog |-> dog, friends |-> friends, cars |-> cars]]

\* The heap: object references are positions in it.
Heap ==
  << Dog("pluto", {"black"}),                     \* 1
     Dog("pluto", {"black", "white"}),            \* 2  same name as 1
     Car("m1", "p1"),                             \* 3
     Car("m2", "p1"),                             \* 4
     Car("m1", "p2"),                             \* 5  same model as 3
     Person("mario", 1, PySet(<<>>), <<3, 4, 5>>),   \* 6
     Person("mario", 2, PySet(<<>>), <<>>),          \* 7  same name as 6
     Person("mario", 2, PyList(<<7>>), <<>>),        \* 8  a friend of the same name
     Person("anna", 1, PyList(<<10>>), <<3>>),       \* 9  a reference cycle with 10
     Person("bob", 1, PyList(<<9>>), <<3>>),         \* 10
     Person("luigi", None, PySet(<<>>), <<>>),       \* 11 no dog
     Person("carla", 1, PyList(<<>>), <<4>>),        \* 12 friends an empty list
     Person("gina", 2, PySet(<<7>>), <<3>>),         \* 13 a set of friends
     Person("rita", 1, PySet(<<>>), <<3, 4, 3>>) >>  \* 14 the same car twice

Objects == DOMAIN Heap

\* The objects that can be built when Person objects can be hashed, or cannot:
\* a set that holds a Person needs the hash.
Exists(hashable, obj) ==
  IF hashable \/ Heap[obj].class # "Person" THEN TRUE
  ELSE \/ Heap[obj].fields.friends.kind # "set"
       \/ Heap[obj].fields.friends.elems = <<>>

\* getattr(obj, property_name) on a domain object
obj_getattr(obj, property_name) == Heap[obj].fields[property_name]

\* getattr(obj, property_name) returns: obj is an object that has the attribute
\* (on None, and on an object of a class without it, AttributeError).
HasAttr(obj, property_name) ==
  /\ obj \in Objects
  /\ property_name \in DOMAIN Heap[obj].fields

----------------------------------------------------------------------------
(* Names and the mapping descriptors.                                      *)

\* A bare name "x" is <<"x">>; a NameWithNamespace (prop, ns) is <<prop, ns>>.
Bare(name) == <<name>>

EXAMPLE == "http://example.org/"

OTHER_NS == "http://other.org/"

\* The entities the ontology declares in a namespace.
Namespace(ns) ==
  CASE ns = EXAMPLE ->
         {"Person", "Dog", "Car", "entity_name", "age", "id", "hasDog", "List",
          "ListItem", "item", "itemContent", "sequence_number"}
    [] ns = OTHER_NS -> {"color"}
    [] OTHER -> {}

\* A name resolved, and the AttributeError of a lookup that found nothing.
Resolved(val) == [val |-> val, status |-> "ok"]

Unresolved(exc) == [val |-> NoneStr, status |-> exc]

\* resolve_property_name: a bare name is the result; a (prop, ns) pair is looked
\* up in the namespace and the name of the entity found there is the result:
\* namespace[prop] is None when the namespace has no such entity, and .name
\* raises AttributeError.  given: the onto argument is an ontology, not None
\* (None has no get_namespace: AttributeError).
resolve_property_name(name, given) ==
  IF Len(name) = 1 THEN Resolved(name[1])
  ELSE IF ~given THEN Unresolved("AttributeError")
  ELSE IF name[1] \in Namespace(name[2]) THEN Resolved(name[1])
  ELSE Unresolved("AttributeError")

\* The result of a resolve_property_name call that returns.
resolved(name) == resolve_property_name(name, TRUE).val

\* Every resolve_property_name call on the names returns.
Resolves(names, given) ==
  \A n \in names : resolve_property_name(n, given).status = "ok"

DataPropertyMapping(target_property, functional, primary_key) ==
  [kind |-> "data", target_property |-> target_property,
   functional |-> functional, primary_key |-> primary_key]

\* mapper_maker is the name of the Mapper class the factory constructs.
ObjectPropertyMapping(relation, mapper_maker, functional) ==
  [kind |-> "object", relation |-> relation, mapper_maker |-> mapper_maker,
   functional |-> functional]

ListMapping(relation, pivot_class, connection_to_item, item_mapper_maker, index_property) ==
  [kind |-> "list", relation |-> relation, pivot_class |-> pivot_class,
   connection_to_item |-> connection_to_item,
   item_mapper_maker |-> item_mapper_maker, index_property |-> index_property]

\* Mapping.is_primary_key, overridden by DataPropertyMapping alone.
is_primary_key(m) == IF m.kind = "data" THEN m.primary_key ELSE FALSE

\* One entry of the mappings dict: Python dicts keep the insertion order.
Field(name, mapping) == [name |-> name, mapping |-> mapping]

Mapper(source_class, target_class, mappings) ==
  [source_class |-> source_class, target_class |-> target_class,
   mappings |-> mappings]

Reverse(s) == [i \in 1..Len(s) |-> s[Len(s) + 1 - i]]

\* The table in the order the configuration gives.
Ordered(c, table) == IF c.order = "fwd" THEN table ELSE Reverse(table)

DogMapper(c) ==
  Mapper(DataClass("Dog", FALSE), <<"Dog", EXAMPLE>>, Ordered(c,
    << Field("name", DataPropertyMapping(Bare("entity_name"), TRUE, c.keys >= 1)),
       Field("colors", DataPropertyMapping(<<"color", OTHER_NS>>, FALSE, FALSE)) >>))

CarMapper(c) ==
  Mapper(DataClass("Car", FALSE), <<"Car", EXAMPLE>>, Ordered(c,
    << Field("model", DataPropertyMapping(Bare("entity_name"), TRUE, c.keys >= 1)),
       Field("plate", DataPropertyMapping(Bare("plate"), TRUE, c.keys >= 2)) >>))

\* The target class is the (classname, namespace) pair, or the bare string the
\* PersonMapper of the tests passes.
PersonMapper(c) ==
  Mapper(DataClass("Person", c.hashable),
         IF c.target = "str" THEN Bare("Person") ELSE <<"Person", EXAMPLE>>,
         Ordered(c,
    << Field("name", DataPropertyMapping(Bare("entity_name"), TRUE, c.keys >= 1)),
       Field("dog", ObjectPropertyMapping(Bare("hasDog"), "DogMapper", TRUE)),
       Field("friends",
             ObjectPropertyMapping(Bare("hasFriend"), "PersonMapper", FALSE)),
       Field("cars", ListMapping(Bare("item"), <<"ListItem", EXAMPLE>>,
                                 Bare("itemContent"), "CarMapper",
                                 Bare("sequence_number"))) >>))

MapperNames == {"DogMapper", "CarMapper", "PersonMapper"}

\* The mapper classes of a configuration; a factory looks its class up here
\* each time it is called.
Schema(c) ==
  [n \in MapperNames |->
     CASE n = "DogMapper" -> DogMapper(c)
       [] n = "CarMapper" -> CarMapper(c)
       [] n = "PersonMapper" -> PersonMapper(c)]

\* The Mapper class of a domain object's class.
MapperOf(obj) == Heap[obj].class \o "Mapper"

Configs ==
  [keys : 0..2, order : {"fwd", "rev"}, target : {"pair", "str"},
   hashable : BOOLEAN]

----------------------------------------------------------------------------
(* The store (owlready2's ontology), by the interface the code uses.       *)

StringProps == {"entity_name", "plate", "color"}

IntProps == {"age", "id", "sequence_number"}

ObjectProps == {"hasDog", "hasFriend", "item", "itemContent"}

Props == StringProps \cup IntProps \cup ObjectProps

FunctionalProps ==
  {"entity_name", "age", "id", "plate", "hasDog", "itemContent", "sequence_number"}

\* What reading a functional property without a value gives: None.
Absent(prop) ==
  IF prop \in StringProps THEN NoneStr
  ELSE IF prop \in IntProps THEN NoneInt ELSE None

\* The values a property holds once `value` is assigned to it.  A list
\* assigned to a multi-valued property is passed as the set of its elements.
Stored(prop, value) ==
  IF prop \in FunctionalProps
  THEN (IF value = Absent(prop) THEN {} ELSE {value})
  ELSE value

\* target_class(): a new individual, no property set.
NewIndividual(o, cls) ==
  Append(o, [cls |-> cls, props |-> [p \in Props |-> {}]])

\* setattr(owl_instance, prop, value)
setattr(o, owl_instance, prop, value) ==
  [o EXCEPT ![owl_instance].props[prop] = Stored(prop, value)]

\* getattr(owl_instance, prop) of a functional property
getattr(o, owl_instance, prop) ==
  LET vs == o[owl_instance].props[prop]
  IN IF vs = {} THEN Absent(prop) ELSE CHOOSE v \in vs : TRUE

\* getattr(owl_instance, prop) of a multi-valued property
getattr_all(o, owl_instance, prop) == o[owl_instance].props[prop]

\* The individuals of class cls that satisfy every constraint of search_args.
Matches(o, cls, search_args) ==
  {i \in DOMAIN o :
     /\ o[i].cls = cls
     /\ \A k \in DOMAIN search_args : o[i].props[k] = Stored(k, search_args[k])}

\* ontology.search_one(type=cls, **search_args): the first match the store
\* yields, None without one.
search_one(o, cls, search_args, ord) ==
  LET found == Iterate(Matches(o, cls, search_args), ord)
  IN IF found = <<>> THEN None ELSE found[1]

----------------------------------------------------------------------------
(* The domain objects as values: what == on two dataclass instances        *)
(* compares.                                                               *)

\* The objects a Person refers to directly.
Children(obj) ==
  IF obj = None \/ Heap[obj].class # "Person" THEN {}
  ELSE LET f == Heap[obj].fields
       IN (IF f.dog = None THEN {} ELSE {f.dog})
            \cup Range(f.friends.elems) \cup Range(f.cars)

RECURSIVE Descendants(_, _)
\* The objects reachable from those of S in one step or more (seen: found so far).
Descendants(S, seen) ==
  LET next == (UNION {Children(o) : o \in S}) \ seen
  IN IF next = {} THEN seen ELSE Descendants(next, seen \cup next)

\* The objects that lie on, or lead to, a reference cycle.
CyclicObjects ==
  {obj \in Objects :
     \E o \in {obj} \cup Descendants({obj}, {}) : o \in Descendants({o}, {})}

Cyclic(obj) == obj \in CyclicObjects

NoneObject == [class |-> "NoneType"]

RECURSIVE Unfold(_)
\* The value of an object that reaches no cycle: its class and its fields, the
\* objects it refers to unfolded in turn.
Unfold(obj) ==
  IF obj = None THEN NoneObject
  ELSE LET f == Heap[obj].fields
       IN IF Heap[obj].class # "Person" THEN Heap[obj]
          ELSE [class |-> "Person",
                fields |-> [name |-> f.name,
                            dog |-> Unfold(f.dog),
                            friends |->
                              IF f.friends.kind = "set"
                              THEN SetValue({Unfold(x) : x \in Range(f.friends.elems)})
                              ELSE ListValue([i \in DOMAIN f.friends.elems |->
                                                Unfold(f.friends.elems[i])]),
                            cars |-> [i \in DOMAIN f.cars |-> Unfold(f.cars[i])]]]

\* The value of every object that reaches no cycle.
ValueOf == [obj \in Objects \ CyclicObjects |-> Unfold(obj)]

\* a == b for two domain objects (the same object equals itself)
SameObject(a, b) ==
  \/ a = b
  \/ /\ a \in DOMAIN ValueOf
     /\ b \in DOMAIN ValueOf
     /\ ValueOf[a] = ValueOf[b]

----------------------------------------------------------------------------
(* The world a call runs in: the ontology, and with it a record of what    *)
(* the searches of the call have found: hits holds <<i, obj>> when a       *)
(* search for obj, the object of the call or one nested in it, returned    *)
(* individual i.  The code does not read it.                               *)

World(o) == [onto |-> o, hits |-> {}]

WithOnto(w, o) == [w EXCEPT !.onto = o]

\* A search of the call found individual ind for obj.
Hit(w, ind, obj) == [w EXCEPT !.hits = @ \cup {<<ind, obj>>}]

\* A normal return of val.
Ok(w, val) == [w |-> w, val |-> val, status |-> "ok"]

\* An exception, passed on by every caller that does not catch it.
Raise(w, exc) == [w |-> w, val |-> None, status |-> exc]

\* r unless it raised, and then what K makes of it: the statement after a call.
Try(r, K(_)) == IF r.status # "ok" THEN Raise(r.w, r.status) ELSE K(r)

\* What K makes of the value v: a local variable.
Let(v, K(_)) == K(v)

----------------------------------------------------------------------------
(* DataPropertyMapping.                                                    *)

\* target: the value of the field; the list of a multi-valued field's
\* elements is passed as their set.
DataPropertyMapping_target(m, obj, property_name) ==
  obj_getattr(obj, property_name)

\* A to_owl that writes the functional fields alone.
DataPropertyMapping_to_owl_functional_only(m, w, owl_instance, obj, property_name, given) ==
  IF ~Resolves({m.target_property}, given) THEN Raise(w, "AttributeError")
  ELSE IF ~HasAttr(obj, property_name) THEN Raise(w, "AttributeError")
  ELSE IF ~m.functional THEN Ok(w, None)
  ELSE Ok(WithOnto(w, setattr(w.onto, owl_instance,
                              resolved(m.target_property),
                              DataPropertyMapping_target(m, obj, property_name))),
          None)

\* The name is resolved first, then the field read and the property written.
DataPropertyMapping_to_owl(m, w, owl_instance, obj, property_name, given) ==
  IF ~Resolves({m.target_property}, given) THEN Raise(w, "AttributeError")
  ELSE IF ~HasAttr(obj, property_name) THEN Raise(w, "AttributeError")
  ELSE Ok(WithOnto(w, setattr(w.onto, owl_instance,
                              resolved(m.target_property),
                              DataPropertyMapping_target(m, obj, property_name))),
          None)

\* The field is read first; the name is resolved on return.
DataPropertyMapping_to_query(m, w, obj, property_name, given) ==
  IF ~HasAttr(obj, property_name) THEN Raise(w, "AttributeError")
  ELSE IF ~Resolves({m.target_property}, given) THEN Raise(w, "AttributeError")
  ELSE Ok(w, <<resolved(m.target_property),
               DataPropertyMapping_target(m, obj, property_name)>>)

----------------------------------------------------------------------------
(* ObjectPropertyMapping.                                                  *)

RECURSIVE Mapper_to_owl(_, _, _, _, _, _)

RECURSIVE to_owl_each(_, _, _, _, _, _, _)
\* [mapper.to_owl(e) for e in elements]: acc is the list built so far.
to_owl_each(sch, mapper, w, elements, acc, ord, depth) ==
  IF elements = <<>> THEN Ok(w, acc)
  ELSE Try(Mapper_to_owl(sch, mapper, w, Head(elements), ord, depth),
           LAMBDA r : to_owl_each(sch, mapper, r.w, Tail(elements),
                                  Append(acc, r.val), ord, depth))

\* target: the individual the nested mapper encodes the referenced object
\* to, or the list of them (given as the set of its elements).
ObjectPropertyMapping_target(sch, m, w, obj, property_name, ord, depth) ==
  IF ~HasAttr(obj, property_name) THEN Raise(w, "AttributeError")
  ELSE IF m.functional
  THEN Try(Mapper_to_owl(sch, m.mapper_maker, w, obj_getattr(obj, property_name),
                         ord, depth + 1),
           LAMBDA r : Ok(r.w, r.val))
  ELSE Try(to_owl_each(sch, m.mapper_maker, w,
                       obj_getattr(obj, property_name).elems, <<>>, ord,
                       depth + 1),
           LAMBDA r : Ok(r.w, Range(r.val)))

\* The relation is resolved before the nested mapper encodes anything.
ObjectPropertyMapping_to_owl(sch, m, w, owl_instance, obj, property_name, given, ord, depth) ==
  IF ~Resolves({m.relation}, given) THEN Raise(w, "AttributeError")
  ELSE Try(ObjectPropertyMapping_target(sch, m, w, obj, property_name, ord, depth),
           LAMBDA t : Ok(WithOnto(t.w, setattr(t.w.onto, owl_instance,
                                               resolved(m.relation), t.val)),
                         None))

\* The relation is resolved on return, after the nested mapper has encoded.
ObjectPropertyMapping_to_query(sch, m, w, obj, property_name, given, ord, depth) ==
  Try(ObjectPropertyMapping_target(sch, m, w, obj, property_name, ord, depth),
      LAMBDA t : IF ~Resolves({m.relation}, given) THEN Raise(t.w, "AttributeError")
                 ELSE Ok(t.w, <<resolved(m.relation), t.val>>))

----------------------------------------------------------------------------
(* ListMapping.                                                            *)

\* setattr(pivot, connection_to_item, item); setattr(pivot, index_property, i)
set_pivot(m, o, pivot, item, i) ==
  setattr(setattr(o, pivot, resolved(m.connection_to_item), item),
          pivot, resolved(m.index_property), i)

RECURSIVE fill_pivots(_, _, _, _, _, _, _, _)
\* for i, (element, pivot) in enumerate(zip(elements, pivots)), from the k-th
fill_pivots(sch, m, w, elements, pivots, k, ord, depth) ==
  IF k > Len(elements) THEN Ok(w, None)
  ELSE Try(Mapper_to_owl(sch, m.item_mapper_maker, w, elements[k], ord, depth + 1),
           LAMBDA r : fill_pivots(sch, m,
                                  WithOnto(r.w, set_pivot(m, r.w.onto, pivots[k],
                                                          r.val, k - 1)),
                                  elements, pivots, k + 1, ord, depth))

\* onto[name]: the entity of that name declared in the ontology, None when
\* the ontology declares none (an entity of another namespace is not found).
onto_getitem(name) ==
  IF name \in Namespace(EXAMPLE) THEN name ELSE NoneStr

\* [onto[pivot_class]() for e in elements], onto[pivot_class] being the class
\* cls: n new individuals of the class.
NewIndividuals(o, cls, n) ==
  o \o [i \in 1..n |-> [cls |-> cls, props |-> [p \in Props |-> {}]]]

\* The four names of a ListMapping.
ListMapping_properties(m) ==
  {m.relation, m.pivot_class, m.connection_to_item, m.index_property}

\* given: the onto argument is an ontology, not None.  When the ontology has
\* no entity of the pivot class's name, the first pivot is None(): TypeError,
\* before an element is encoded (an empty list makes no pivot).
ListMapping_to_owl(sch, m, w, owl_instance, obj, property_name, given, ord, depth) ==
  IF ~given THEN Raise(w, "ValueError")
  ELSE IF ~Resolves(ListMapping_properties(m), given) THEN Raise(w, "AttributeError")
  ELSE IF ~HasAttr(obj, property_name) THEN Raise(w, "AttributeError")
  ELSE Let(obj_getattr(obj, property_name), LAMBDA elements :
       IF elements # <<>> /\ onto_getitem(resolved(m.pivot_class)) = NoneStr
       THEN Raise(w, "TypeError")
       ELSE
       Let([i \in 1..Len(elements) |-> Len(w.onto) + i], LAMBDA pivots :
       Try(fill_pivots(sch, m,
                       WithOnto(w, NewIndividuals(w.onto,
                                                  onto_getitem(resolved(m.pivot_class)),
                                                  Len(elements))),
                       elements, pivots, 1, ord, depth),
           LAMBDA r : Ok(WithOnto(r.w, setattr(r.w.onto, owl_instance,
                                               resolved(m.relation),
                                               Range(pivots))),
                         None))))

\* ListMapping does not override Mapping.to_query.
ListMapping_to_query(m, w, obj, property_name) == Raise(w, "NotImplementedError")

----------------------------------------------------------------------------
(* Mapping: the call of a method on a mapping of either kind.              *)

Mapping_to_owl(sch, m, w, owl_instance, obj, property_name, given, ord, depth) ==
  CASE m.kind = "data" ->
         DataPropertyMapping_to_owl(m, w, owl_instance, obj, property_name, given)
    [] m.kind = "object" ->
         ObjectPropertyMapping_to_owl(sch, m, w, owl_instance, obj, property_name,
                                      given, ord, depth)
    [] m.kind = "list" ->
         ListMapping_to_owl(sch, m, w, owl_instance, obj, property_name, given, ord,
                            depth)

Mapping_to_query(sch, m, w, obj, property_name, given, ord, depth) ==
  CASE m.kind = "data" ->
         DataPropertyMapping_to_query(m, w, obj, property_name, given)
    [] m.kind = "object" ->
         ObjectPropertyMapping_to_query(sch, m, w, obj, property_name, given, ord,
                                        depth)
    [] m.kind = "list" -> ListMapping_to_query(m, w, obj, property_name)

----------------------------------------------------------------------------
(* Mapper.to_owl.                                                          *)

\* A class object passed as target class.
OwlClass(name) == <<name, EXAMPLE, "class">>

\* classname, ns = self.target_class; namespace[classname].  A (classname, ns)
\* pair gives the class of the namespace, None when it has none of the name; a
\* class object cannot be unpacked, the TypeError is caught and the object is
\* the class; a string unpacks into its characters and, unless it has two,
\* raises a ValueError that nothing catches.
resolve_target_class(target_class) ==
  IF Len(target_class) = 3 THEN Resolved(target_class[1])
  ELSE IF Len(target_class) = 1 THEN Unresolved("ValueError")
  ELSE IF target_class[1] \in Namespace(target_class[2])
  THEN Resolved(target_class[1])
  ELSE Resolved(NoneStr)

\* The class a mapper searches and instantiates, once resolved.
target_class_of(sch, self) == resolve_target_class(sch[self].target_class).val

\* The positions of the fields flagged as primary key.
Flagged(mappings) ==
  {k \in DOMAIN mappings : is_primary_key(mappings[k].mapping)}

\* A pick of the last field flagged as primary key.
primary_key_of_last(mappings) ==
  IF Flagged(mappings) = {} THEN 0
  ELSE CHOOSE k \in Flagged(mappings) : \A j \in Flagged(mappings) : k >= j

\* next(filter(lambda k: mappings[k].is_primary_key(), mappings), None): the
\* position of the first field flagged as primary key, 0 without one.
primary_key_of(mappings) ==
  IF Flagged(mappings) = {} THEN 0
  ELSE CHOOSE k \in Flagged(mappings) : \A j \in Flagged(mappings) : k <= j

\* What the query building of a call leaves: the constraints, and whether a
\* warning was emitted.
Query(w, status, search_args, warned) ==
  [w |-> w, status |-> status, search_args |-> search_args, warned |-> warned]

\* query building that raised
QueryRaised(r, search_args, warned) == Query(r.w, r.status, search_args, warned)

\* The branch of a primary key: its field alone is the constraint.
query_primary_key(sch, mappings, primary_key, w, obj, ord, depth) ==
  Let(Mapping_to_query(sch, mappings[primary_key].mapping, w, obj,
                       mappings[primary_key].name, TRUE, ord, depth),
      LAMBDA r : IF r.status # "ok" THEN QueryRaised(r, EmptyDict, FALSE)
                 ELSE Query(r.w, "ok", Put(EmptyDict, r.val[1], r.val[2]), FALSE))

RECURSIVE query_all_fields_overwrite(_, _, _, _, _, _, _, _, _)
\* A loop that keeps the constraint of the last field alone.
query_all_fields_overwrite(sch, mappings, k, w, search_args, warned, obj, ord, depth) ==
  IF k > Len(mappings) THEN Query(w, "ok", search_args, warned)
  ELSE Let(Mapping_to_query(sch, mappings[k].mapping, w, obj, mappings[k].name,
                            TRUE, ord, depth),
           LAMBDA r :
             IF r.status = "NotImplementedError"
             THEN query_all_fields_overwrite(sch, mappings, k + 1, r.w, search_args,
                                             TRUE, obj, ord, depth)
             ELSE IF r.status # "ok" THEN QueryRaised(r, search_args, warned)
             ELSE query_all_fields_overwrite(sch, mappings, k + 1, r.w,
                                             Put(EmptyDict, r.val[1], r.val[2]),
                                             warned, obj, ord, depth))

RECURSIVE query_all_fields_uncaught(_, _, _, _, _, _, _, _, _)
\* A loop that lets the NotImplementedError of a to_query through.
query_all_fields_uncaught(sch, mappings, k, w, search_args, warned, obj, ord, depth) ==
  IF k > Len(mappings) THEN Query(w, "ok", search_args, warned)
  ELSE Let(Mapping_to_query(sch, mappings[k].mapping, w, obj, mappings[k].name,
                            TRUE, ord, depth),
           LAMBDA r :
             IF r.status # "ok" THEN QueryRaised(r, search_args, warned)
             ELSE query_all_fields_uncaught(sch, mappings, k + 1, r.w,
                                            Put(search_args, r.val[1], r.val[2]),
                                            warned, obj, ord, depth))

RECURSIVE query_all_fields(_, _, _, _, _, _, _, _, _)
\* The branch without a primary key: for prop_name, mapping in
\* self.mappings.items(), from the k-th; a NotImplementedError is caught and
\* a warning emitted.
query_all_fields(sch, mappings, k, w, search_args, warned, obj, ord, depth) ==
  IF k > Len(mappings) THEN Query(w, "ok", search_args, warned)
  ELSE Let(Mapping_to_query(sch, mappings[k].mapping, w, obj, mappings[k].name,
                            TRUE, ord, depth),
           LAMBDA r :
             IF r.status = "NotImplementedError"
             THEN query_all_fields(sch, mappings, k + 1, r.w, search_args, TRUE,
                                   obj, ord, depth)
             ELSE IF r.status # "ok" THEN QueryRaised(r, search_args, warned)
             ELSE query_all_fields(sch, mappings, k + 1, r.w,
                                   Put(search_args, r.val[1], r.val[2]), warned,
                                   obj, ord, depth))

\* search_args as the branch taken builds it
build_search_args(sch, mappings, w, obj, ord, depth) ==
  IF primary_key_of(mappings) # 0
  THEN query_primary_key(sch, mappings, primary_key_of(mappings), w, obj, ord, depth)
  ELSE query_all_fields(sch, mappings, 1, w, EmptyDict, FALSE, obj, ord, depth)

\* The search of a call: the constraints built, the target class resolved,
\* then search_one.
Mapper_search(sch, self, w, obj, ord, depth) ==
  Let(build_search_args(sch, sch[self].mappings, w, obj, ord, depth),
      LAMBDA q :
        [w |-> q.w,
         status |-> IF q.status # "ok" THEN q.status
                    ELSE resolve_target_class(sch[self].target_class).status,
         search_args |-> q.search_args,
         warned |-> q.warned,
         search_result |->
           IF q.status # "ok" THEN None
           ELSE IF resolve_target_class(sch[self].target_class).status # "ok"
           THEN None
           ELSE search_one(q.w.onto, target_class_of(sch, self), q.search_args,
                           ord)])

RECURSIVE populate(_, _, _, _, _, _, _, _)
\* for property_name, mapping in self.mappings.items(): mapping.to_owl(...),
\* from the k-th
populate(sch, mappings, k, w, owl_instance, obj, ord, depth) ==
  IF k > Len(mappings) THEN Ok(w, owl_instance)
  ELSE Try(Mapping_to_owl(sch, mappings[k].mapping, w, owl_instance, obj,
                          mappings[k].name, TRUE, ord, depth),
           LAMBDA r : populate(sch, mappings, k + 1, r.w, owl_instance, obj, ord,
                               depth))

\* What a Mapper.to_owl call leaves.
Returned(w, val, status, s, found) ==
  [w |-> w, val |-> val, status |-> status, search_args |-> s.search_args,
   warned |-> s.warned, found |-> found]

\* A call that returns the individual it creates with no field written.
Mapper_create_unpopulated(sch, self, s, obj, ord, depth) ==
  IF s.search_result # None
  THEN Returned(Hit(s.w, s.search_result, obj), s.search_result, "ok", s, TRUE)
  ELSE IF target_class_of(sch, self) = NoneStr
  THEN Returned(s.w, None, "TypeError", s, FALSE)
  ELSE Returned(WithOnto(s.w, NewIndividual(s.w.onto, target_class_of(sch, self))),
                Len(s.w.onto) + 1, "ok", s, FALSE)

\* The rest of a call after its search, s: the individual found is returned
\* as it is, or a new one is created and every mapping writes its field
\* (calling None, the class not found, raises TypeError).
Mapper_create(sch, self, s, obj, ord, depth) ==
  IF s.search_result # None
  THEN Returned(Hit(s.w, s.search_result, obj), s.search_result, "ok", s, TRUE)
  ELSE IF target_class_of(sch, self) = NoneStr
  THEN Returned(s.w, None, "TypeError", s, FALSE)
  ELSE Let(populate(sch, sch[self].mappings, 1,
                    WithOnto(s.w, NewIndividual(s.w.onto,
                                                target_class_of(sch, self))),
                    Len(s.w.onto) + 1, obj, ord, depth),
           LAMBDA r : IF r.status # "ok" THEN Returned(r.w, None, r.status, s, FALSE)
                      ELSE Returned(r.w, r.val, "ok", s, FALSE))

NoSearch == [search_args |-> EmptyDict, warned |-> FALSE]

Mapper_to_owl(sch, self, w, obj, ord, depth) ==
  IF depth > MaxDepth THEN Returned(w, None, "RecursionError", NoSearch, FALSE)
  ELSE Let(Mapper_search(sch, self, w, obj, ord, depth),
           LAMBDA s : IF s.status # "ok" THEN Returned(s.w, None, s.status, s, FALSE)
                      ELSE Mapper_create(sch, self, s, obj, ord, depth))

----------------------------------------------------------------------------
(* from_owl.                                                               *)

Decoded(val) == [val |-> val, status |-> "ok"]

Failed(exc) == [val |-> NoneObject, status |-> exc]

\* r unless it raised, and then what K makes of it.
TryDecoded(r, K(_)) == IF r.status # "ok" THEN r ELSE K(r)

DataPropertyMapping_from_owl(m, o, owl_instance, given) ==
  IF ~Resolves({m.target_property}, given) THEN Failed("AttributeError")
  ELSE IF owl_instance = None THEN Failed("AttributeError")
  ELSE IF m.functional
  THEN Decoded(getattr(o, owl_instance, resolved(m.target_property)))
  ELSE Decoded(getattr_all(o, owl_instance, resolved(m.target_property)))

RECURSIVE Mapper_from_owl(_, _, _, _, _, _)

RECURSIVE from_owl_each(_, _, _, _, _, _, _)
\* [mapper.from_owl(e) for e in elements]: acc is the list built so far.
from_owl_each(sch, mapper, o, elements, acc, ord, depth) ==
  IF elements = <<>> THEN Decoded(acc)
  ELSE TryDecoded(Mapper_from_owl(sch, mapper, o, Head(elements), ord, depth),
                  LAMBDA r : from_owl_each(sch, mapper, o, Tail(elements),
                                           Append(acc, r.val), ord, depth))

\* {mapper.from_owl(e) for e in elements}: each element is decoded and added
\* to the set, which hashes it.  Of a class without __hash__ the first object
\* decoded ends the comprehension with a TypeError; of a class with __hash__
\* the set holds the objects decoded, equal ones once.
set_of_decoded(sch, mapper, o, elements, ord, depth) ==
  IF elements = <<>> THEN Decoded(SetValue({}))
  ELSE IF ~sch[mapper].source_class.hashable
  THEN TryDecoded(Mapper_from_owl(sch, mapper, o, Head(elements), ord, depth),
                  LAMBDA r : Failed("TypeError"))
  ELSE TryDecoded(from_owl_each(sch, mapper, o, elements, <<>>, ord, depth),
                  LAMBDA r : Decoded(SetValue(Range(r.val))))

ObjectPropertyMapping_from_owl(sch, m, o, owl_instance, given, ord, depth) ==
  IF ~Resolves({m.relation}, given) THEN Failed("AttributeError")
  ELSE IF owl_instance = None THEN Failed("AttributeError")
  ELSE IF m.functional
  THEN Mapper_from_owl(sch, m.mapper_maker, o,
                       getattr(o, owl_instance, resolved(m.relation)),
                       ord, depth + 1)
  ELSE set_of_decoded(sch, m.mapper_maker, o,
                      Iterate(getattr_all(o, owl_instance, resolved(m.relation)),
                              ord),
                      ord, depth + 1)

RECURSIVE insert_sorted(_, _, _, _)
\* x put into the sorted list s after every element whose key is not larger.
insert_sorted(s, x, o, index_property) ==
  IF s = <<>> THEN <<x>>
  ELSE IF getattr(o, x, index_property) < getattr(o, Head(s), index_property)
       THEN <<x>> \o s
       ELSE <<Head(s)>> \o insert_sorted(Tail(s), x, o, index_property)

\* The pivots left in the order the store yields them.
unsorted(s, o, index_property) == Decoded(s)

RECURSIVE sort_by_key(_, _, _)
\* The list s in ascending order of the key, equal keys in the order of s.
sort_by_key(s, o, index_property) ==
  IF s = <<>> THEN <<>>
  ELSE insert_sorted(sort_by_key(SubSeq(s, 1, Len(s) - 1), o, index_property),
                     s[Len(s)], o, index_property)

\* sorted(s, key=lambda o: getattr(o, index_property)): ascending and stable.
\* A pivot without index has the key None, and a comparison with None raises
\* TypeError: sorted compares as soon as the list has two elements.
sorted(s, o, index_property) ==
  IF Len(s) >= 2 /\ \E i \in DOMAIN s : getattr(o, s[i], index_property) = NoneInt
  THEN Failed("TypeError")
  ELSE Decoded(sort_by_key(s, o, index_property))

\* [getattr(pivot, connection_to_item) for pivot in pivots]
items_of(o, pivots, connection_to_item) ==
  [i \in DOMAIN pivots |-> getattr(o, pivots[i], connection_to_item)]

\* The decoding of the pivots, given in the order the store yields them.
ListMapping_from_pivots(sch, m, o, stored, ord, depth) ==
  TryDecoded(sorted(stored, o, resolved(m.index_property)),
             LAMBDA pivots :
               from_owl_each(sch, m.item_mapper_maker, o,
                             items_of(o, pivots.val, resolved(m.connection_to_item)),
                             <<>>, ord, depth + 1))

ListMapping_from_owl(sch, m, o, owl_instance, given, ord, depth) ==
  IF ~Resolves(ListMapping_properties(m), given) THEN Failed("AttributeError")
  ELSE IF owl_instance = None THEN Failed("AttributeError")
  ELSE ListMapping_from_pivots(sch, m, o,
                               Iterate(getattr_all(o, owl_instance,
                                                   resolved(m.relation)),
                                       ord),
                               ord, depth)

Mapping_from_owl(sch, m, o, owl_instance, given, ord, depth) ==
  CASE m.kind = "data" -> DataPropertyMapping_from_owl(m, o, owl_instance, given)
    [] m.kind = "object" ->
         ObjectPropertyMapping_from_owl(sch, m, o, owl_instance, given, ord, depth)
    [] m.kind = "list" ->
         ListMapping_from_owl(sch, m, o, owl_instance, given, ord, depth)

RECURSIVE decode_fields(_, _, _, _, _, _, _, _)
\* for property_name, mapping in self.mappings.items():
\*     kwargs[property_name] = mapping.from_owl(...), from the k-th
decode_fields(sch, mappings, k, kwargs, o, owl_instance, ord, depth) ==
  IF k > Len(mappings) THEN Decoded(kwargs)
  ELSE TryDecoded(Mapping_from_owl(sch, mappings[k].mapping, o, owl_instance, TRUE,
                                   ord, depth),
                  LAMBDA r : decode_fields(sch, mappings, k + 1,
                                           Put(kwargs, mappings[k].name, r.val),
                                           o, owl_instance, ord, depth))

Mapper_from_owl(sch, self, o, owl_instance, ord, depth) ==
  IF depth > MaxDepth THEN Failed("RecursionError")
  ELSE TryDecoded(decode_fields(sch, sch[self].mappings, 1, EmptyDict, o,
                                owl_instance, ord, depth),
                  LAMBDA r : Decoded([class |-> sch[self].source_class.name,
                                      fields |-> r.val]))

----------------------------------------------------------------------------
(* Mapper.to_owl one store operation at a time.  A search_one, the         *)
(* creation of an individual and a setattr on an individual are the        *)
(* operations of a call on the store; what the call does between two of    *)
(* them touches its own variables alone.  The call stack is a sequence of  *)
(* frames, the running one last: a Mapper frame for a Mapper.to_owl call,  *)
(* an object frame for an ObjectPropertyMapping.to_query or to_owl call,   *)
(* a list frame for a ListMapping.to_owl call.  self and k of a mapping's  *)
(* frame name the table entry the mapping comes from.                      *)

Frame(f, self, obj, pc, k, owl_instance, elems) ==
  [f |-> f, self |-> self, obj |-> obj, pc |-> pc, k |-> k,
   owl_instance |-> owl_instance, elems |-> elems, acc |-> <<>>, i |-> 1,
   ret |-> None, search_args |-> EmptyDict, warned |-> FALSE]

\* A thread: the call it makes, its stack, how the call ended, and what the
\* search_one of the call itself (not of a nested call) found.
Idle ==
  [status |-> "idle", obj |-> None, stack |-> <<>>, val |-> None,
   searched |-> FALSE, search_result |-> None]

Top(t) == t.stack[Len(t.stack)]

SetTop(t, fr) == [t EXCEPT !.stack[Len(t.stack)] = fr]

Pop(t) == [t EXCEPT !.stack = SubSeq(@, 1, Len(@) - 1)]

\* The table entry a frame works on.
FieldOf(sch, fr) == sch[fr.self].mappings[fr.k]

\* An exception nothing catches: the call ends with it.
Raised(t, exc) == [t EXCEPT !.status = exc, !.stack = <<>>]

\* The frame of mapper.to_owl(obj) as the call begins: search_args = {}, and
\* the field to query first.
MapperFrame(sch, self, obj) ==
  Frame("Mapper", self, obj, "query",
        IF primary_key_of(sch[self].mappings) # 0
        THEN primary_key_of(sch[self].mappings) ELSE 1,
        None, <<>>)

\* mapper.to_owl(obj) called: a new frame, RecursionError past the limit.
CallMapper(sch, t, self, obj) ==
  IF Cardinality({j \in DOMAIN t.stack : t.stack[j].f = "Mapper"}) > MaxDepth
  THEN Raised(t, "RecursionError")
  ELSE [t EXCEPT !.stack = Append(@, MapperFrame(sch, self, obj))]

\* return owl_instance: to the caller of the thread, to the comprehension of
\* an ObjectPropertyMapping, or to the loop of a ListMapping.
MapperReturns(t, v) ==
  IF Len(t.stack) = 1 THEN [t EXCEPT !.stack = <<>>, !.status = "ok", !.val = v]
  ELSE IF Top(Pop(t)).f = "object"
  THEN SetTop(Pop(t), [Top(Pop(t)) EXCEPT !.acc = Append(@, v)])
  ELSE SetTop(Pop(t), [Top(Pop(t)) EXCEPT !.ret = v, !.pc = "conn"])

\* key, query = mapping.to_query(...); search_args[key] = query, in the
\* Mapper frame that is the top of t: the search is next after the key's
\* fragment, the next field after another's.
QueryReturns(sch, t, kv) ==
  SetTop(t, [Top(t) EXCEPT
               !.search_args = Put(@, kv[1], kv[2]),
               !.pc = IF primary_key_of(sch[Top(t).self].mappings) # 0
                      THEN "search" ELSE "query",
               !.k = @ + 1])

\* mapping.to_owl(...) has returned to the populate loop of the Mapper frame
\* that is the top of t.
MappingReturns(t) == SetTop(t, [Top(t) EXCEPT !.k = @ + 1])

\* The target an ObjectPropertyMapping makes of the individuals encoded.
target_of(m, acc) == IF m.functional THEN acc[1] ELSE Range(acc)

\* The elements an ObjectPropertyMapping encodes.
elements_of(m, obj, property_name) ==
  IF m.functional THEN <<obj_getattr(obj, property_name)>>
  ELSE obj_getattr(obj, property_name).elems

\* What the running frame does next: an operation on the store (its kind),
\* or a step of its own.
Pending(sch, t) ==
  IF t.status # "run" THEN "none"
  ELSE LET fr == Top(t)
       IN CASE fr.f = "Mapper" /\ fr.pc = "search" -> "search"
            [] fr.f = "Mapper" /\ fr.pc = "create" -> "create"
            [] /\ fr.f = "Mapper"
               /\ fr.pc = "populate"
               /\ fr.k <= Len(sch[fr.self].mappings)
               /\ FieldOf(sch, fr).mapping.kind = "data" -> "write"
            [] fr.f = "object" /\ fr.pc = "owl" /\ fr.elems = <<>> -> "write"
            [] fr.f = "list" /\ fr.pc = "pivot" /\ Len(fr.acc) < Len(fr.elems)
                 -> "create"
            [] fr.f = "list" /\ fr.pc \in {"conn", "index", "relation"} -> "write"
            [] OTHER -> "local"

\* The query building of a Mapper frame, one field: the fragment of a data
\* field is added; the NotImplementedError of a list field is caught in the
\* loop over all fields; an object field encodes what it refers to first.
LocalQuery(sch, t, fr) ==
  IF fr.k > Len(sch[fr.self].mappings) THEN SetTop(t, [fr EXCEPT !.pc = "search"])
  ELSE Let(FieldOf(sch, fr), LAMBDA fld :
       IF fld.mapping.kind = "object"
       THEN (IF ~HasAttr(fr.obj, fld.name) THEN Raised(t, "AttributeError")
             ELSE [t EXCEPT !.stack =
                     Append(@, Frame("object", fr.self, fr.obj, "query", fr.k, None,
                                     elements_of(fld.mapping, fr.obj, fld.name)))])
       ELSE Let(IF fld.mapping.kind = "data"
                THEN DataPropertyMapping_to_query(fld.mapping, World(<<>>), fr.obj,
                                                  fld.name, TRUE)
                ELSE ListMapping_to_query(fld.mapping, World(<<>>), fr.obj, fld.name),
                LAMBDA r :
                  IF /\ r.status = "NotImplementedError"
                     /\ primary_key_of(sch[fr.self].mappings) = 0
                  THEN SetTop(t, [fr EXCEPT !.warned = TRUE, !.k = @ + 1])
                  ELSE IF r.status # "ok" THEN Raised(t, r.status)
                  ELSE QueryReturns(sch, t, r.val)))

\* The populate loop of a Mapper frame at an object or a list field, and its
\* end: return owl_instance.
LocalPopulate(sch, t, fr) ==
  IF fr.k > Len(sch[fr.self].mappings) THEN MapperReturns(t, fr.owl_instance)
  ELSE Let(FieldOf(sch, fr), LAMBDA fld :
       IF fld.mapping.kind = "object"
       THEN (IF ~Resolves({fld.mapping.relation}, TRUE) THEN Raised(t, "AttributeError")
             ELSE IF ~HasAttr(fr.obj, fld.name) THEN Raised(t, "AttributeError")
             ELSE [t EXCEPT !.stack =
                     Append(@, Frame("object", fr.self, fr.obj, "owl", fr.k,
                                     fr.owl_instance,
                                     elements_of(fld.mapping, fr.obj, fld.name)))])
       ELSE (IF ~Resolves(ListMapping_properties(fld.mapping), TRUE)
             THEN Raised(t, "AttributeError")
             ELSE IF ~HasAttr(fr.obj, fld.name) THEN Raised(t, "AttributeError")
             ELSE [t EXCEPT !.stack =
                     Append(@, Frame("list", fr.self, fr.obj, "pivot", fr.k,
                                     fr.owl_instance,
                                     obj_getattr(fr.obj, fld.name)))]))

\* An object frame: mapper.to_owl on the next element, and after the last
\* the return of to_query (the relation resolved then).
LocalObject(sch, t, fr) ==
  Let(FieldOf(sch, fr).mapping, LAMBDA m :
      IF fr.elems # <<>>
      THEN CallMapper(sch, SetTop(t, [fr EXCEPT !.elems = Tail(@)]), m.mapper_maker,
                      Head(fr.elems))
      ELSE IF ~Resolves({m.relation}, TRUE) THEN Raised(t, "AttributeError")
      ELSE QueryReturns(sch, Pop(t), <<resolved(m.relation), target_of(m, fr.acc)>>))

\* A list frame between its store operations: from the pivots to the loop,
\* mapper.to_owl on the next element, from the loop to the relation.
LocalList(sch, t, fr) ==
  IF fr.pc = "pivot" THEN SetTop(t, [fr EXCEPT !.pc = "item"])
  ELSE IF fr.i > Len(fr.elems) THEN SetTop(t, [fr EXCEPT !.pc = "relation"])
  ELSE CallMapper(sch, t, FieldOf(sch, fr).mapping.item_mapper_maker, fr.elems[fr.i])

\* One step of the running frame that is no store operation.
Local(sch, t) ==
  Let(Top(t), LAMBDA fr :
      CASE fr.f = "Mapper" /\ fr.pc = "query" -> LocalQuery(sch, t, fr)
        [] fr.f = "Mapper" /\ fr.pc = "populate" -> LocalPopulate(sch, t, fr)
        [] fr.f = "object" -> LocalObject(sch, t, fr)
        [] fr.f = "list" -> LocalList(sch, t, fr))

RECURSIVE Advance(_, _)
\* The thread run up to its next store operation, or to its end.
Advance(sch, t) ==
  IF Pending(sch, t) # "local" THEN t ELSE Advance(sch, Local(sch, t))

\* A thread and the ontology after a store operation of the thread.
After(t, o) == [t |-> t, o |-> o]

\* search_result = self.ontology.search_one(type=target_class, **search_args)
\* with the target class resolved just before, and the branch on the result.
Search(sch, t, o, ord) ==
  Let(Top(t), LAMBDA fr :
      IF resolve_target_class(sch[fr.self].target_class).status # "ok"
      THEN After(Raised(t, resolve_target_class(sch[fr.self].target_class).status), o)
      ELSE Let(search_one(o, target_class_of(sch, fr.self), fr.search_args, ord),
               LAMBDA search_result :
                 Let(IF Len(t.stack) > 1 THEN t
                     ELSE [t EXCEPT !.searched = TRUE,
                                    !.search_result = search_result],
                     LAMBDA t1 :
                       IF search_result # None
                       THEN After(MapperReturns(t1, search_result), o)
                       ELSE After(SetTop(t1, [fr EXCEPT !.pc = "create"]), o))))

\* owl_instance = target_class() of a Mapper frame, and one
\* onto[pivot_class]() of a list frame.
Create(sch, t, o) ==
  Let(Top(t), LAMBDA fr :
      IF fr.f = "list"
      THEN (IF onto_getitem(resolved(FieldOf(sch, fr).mapping.pivot_class)) = NoneStr
            THEN After(Raised(t, "TypeError"), o)
            ELSE After(SetTop(t, [fr EXCEPT !.acc = Append(@, Len(o) + 1)]),
                       NewIndividual(o, onto_getitem(
                                          resolved(FieldOf(sch, fr).mapping.pivot_class)))))
      ELSE IF target_class_of(sch, fr.self) = NoneStr
      THEN After(Raised(t, "TypeError"), o)
      ELSE After(SetTop(t, [fr EXCEPT !.owl_instance = Len(o) + 1,
                                      !.pc = "populate", !.k = 1]),
                 NewIndividual(o, target_class_of(sch, fr.self))))

\* A write that leaves the store as it is.
Write_nothing(sch, t, o) ==
  Let(Top(t), LAMBDA fr :
      IF fr.f = "Mapper" THEN After(MappingReturns(t), o)
      ELSE IF fr.f = "object" THEN After(MappingReturns(Pop(t)), o)
      ELSE IF fr.pc = "conn" THEN After(SetTop(t, [fr EXCEPT !.pc = "index"]), o)
      ELSE IF fr.pc = "index"
      THEN After(SetTop(t, [fr EXCEPT !.pc = "item", !.i = @ + 1]), o)
      ELSE After(MappingReturns(Pop(t)), o))

\* A setattr on an individual: the field of a DataPropertyMapping, the
\* relation of an ObjectPropertyMapping, a pivot's item and its index, the
\* relation of a ListMapping.
Write(sch, t, o) ==
  Let(Top(t), LAMBDA fr :
  Let(FieldOf(sch, fr), LAMBDA fld :
      IF fr.f = "Mapper"
      THEN Let(DataPropertyMapping_to_owl(fld.mapping, World(o), fr.owl_instance,
                                          fr.obj, fld.name, TRUE),
               LAMBDA r : IF r.status # "ok" THEN After(Raised(t, r.status), o)
                          ELSE After(MappingReturns(t), r.w.onto))
      ELSE IF fr.f = "object"
      THEN After(MappingReturns(Pop(t)),
                 setattr(o, fr.owl_instance, resolved(fld.mapping.relation),
                         target_of(fld.mapping, fr.acc)))
      ELSE IF fr.pc = "conn"
      THEN After(SetTop(t, [fr EXCEPT !.pc = "index"]),
                 setattr(o, fr.acc[fr.i], resolved(fld.mapping.connection_to_item),
                         fr.ret))
      ELSE IF fr.pc = "index"
      THEN After(SetTop(t, [fr EXCEPT !.pc = "item", !.i = @ + 1]),
                 setattr(o, fr.acc[fr.i], resolved(fld.mapping.index_property),
                         fr.i - 1))
      ELSE After(MappingReturns(Pop(t)),
                 setattr(o, fr.owl_instance, resolved(fld.mapping.relation),
                         Range(fr.acc)))))

----------------------------------------------------------------------------
(* The state machine: calls of Mapper.to_owl and Mapper.from_owl, one at a *)
(* time, on the ontology of a run that starts empty.                       *)

NoCall ==
  [method |-> "", self |-> "", name |-> "", obj |-> None, status |-> "none",
   val |-> None, found |-> FALSE, search_args |-> EmptyDict, warned |-> FALSE,
   clean |-> FALSE, before |-> 0, fresh |-> FALSE]

NotDecoded == [val |-> NoneObject, status |-> "none"]

Procs == {1, 2}

Init ==
  /\ cfg \in Configs
  /\ onto = <<>>
  /\ ncalls = 0
  /\ call = NoCall
  /\ decoded = NotDecoded
  /\ procs = [p \in Procs |-> Idle]

\* Every individual that a search of the call returned decodes, in the
\* ontology the call leaves, to the object that was searched for.
Clean(sch, w) ==
  \A h \in w.hits :
    /\ h[2] \in DOMAIN ValueOf
    /\ \A ord \in StoreOrders :
         LET d == Mapper_from_owl(sch, MapperOf(h[2]), w.onto, h[1], ord, 0)
         IN d.status = "ok" /\ d.val = ValueOf[h[2]]

\* The call record of a to_owl call on obj that left r.
CallRecord(obj, r, before) ==
  [method |-> "Mapper.to_owl", self |-> MapperOf(obj), name |-> "", obj |-> obj,
   status |-> r.status, val |-> r.val, found |-> r.found,
   search_args |-> r.search_args, warned |-> r.warned,
   clean |-> Clean(Schema(cfg), r.w),
   before |-> before, fresh |-> FALSE]

\* The state after a to_owl call on obj that left r.
AfterToOwl(obj, r) ==
  /\ Len(r.w.onto) <= MaxInd
  /\ ncalls' = ncalls + 1
  /\ onto' = r.w.onto
  /\ call' = CallRecord(obj, r, Len(onto))
  /\ decoded' = NotDecoded
  /\ UNCHANGED <<cfg, procs>>

\* The objects the calls are made on (the others are encoded as the objects
\* these refer to).
CallObjects == {1, 2, 5, 6, 7, 8, 9, 11, 12, 13}

\* mapper.to_owl(obj) on the mapper of the object's class
ToOwl(obj, ord) ==
  /\ ncalls < MaxCalls
  /\ Exists(cfg.hashable, obj)
  /\ AfterToOwl(obj, Mapper_to_owl(Schema(cfg), MapperOf(obj), World(onto), obj,
                                   ord, 0))

\* mapper.from_owl(i) on the individual the last to_owl call returned
FromOwl(ord) ==
  /\ call.method = "Mapper.to_owl"
  /\ call.status = "ok"
  /\ decoded.status = "none"
  /\ decoded' = Mapper_from_owl(Schema(cfg), call.self, onto, call.val, ord, 0)
  /\ UNCHANGED <<cfg, onto, ncalls, call, procs>>

Next ==
  \/ \E obj \in CallObjects, ord \in StoreOrders : ToOwl(obj, ord)
  \/ \E ord \in StoreOrders : FromOwl(ord)

Spec == Init /\ [][Next]_vars

----------------------------------------------------------------------------
(* The methods of a mapping called by themselves, as the tests call them:  *)
(* on an individual the caller has created in the ontology (or on one an   *)
(* earlier call has returned) and on a domain object of the mapper's       *)
(* class, with the ontology or None as the onto argument.                  *)

\* The objects the calls are made on.
DirectObjects == {2, 6, 14}

\* The individual the calls are made on: the one the last operation created,
\* returned or wrote.
Target == call.val

\* Another operation may follow: the run has operations left, and has not
\* ended with a from_owl call (which reads the store and changes nothing, so
\* that what may follow it is what may follow the state before it).
MayCall == ncalls < MaxDirect /\ decoded.status = "none"

\* The record of a call of `method` of the mapping of entry k of the table of
\* self that left r, on owl_instance.
DirectRecord(method, self, k, obj, r, owl_instance, search_args, fresh) ==
  [method |-> method, self |-> self, name |-> Schema(cfg)[self].mappings[k].name,
   obj |-> obj, status |-> r.status, val |-> owl_instance, found |-> FALSE,
   search_args |-> search_args, warned |-> FALSE,
   clean |-> Clean(Schema(cfg), r.w),
   before |-> Len(onto), fresh |-> fresh]

\* onto.Person() and the like: the caller creates an individual.
CreateIndividual(cls) ==
  /\ MayCall
  /\ Len(onto) < MaxInd
  /\ ncalls' = ncalls + 1
  /\ onto' = NewIndividual(onto, cls)
  /\ call' = [NoCall EXCEPT !.method = "create", !.status = "ok",
                            !.val = Len(onto) + 1, !.before = Len(onto)]
  /\ decoded' = NotDecoded
  /\ UNCHANGED <<cfg, procs>>

\* No property of the individual holds a value.
Fresh(o, i) == \A p \in Props : o[i].props[p] = {}

\* The state after mapping.to_owl(Target, obj, name, onto) left r.
AfterMappingToOwl(self, k, obj, r) ==
  /\ Len(r.w.onto) <= MaxInd
  /\ ncalls' = ncalls + 1
  /\ onto' = r.w.onto
  /\ call' = DirectRecord(Schema(cfg)[self].mappings[k].mapping.kind \o ".to_owl",
                          self, k, obj, r, Target, EmptyDict, Fresh(onto, Target))
  /\ decoded' = NotDecoded
  /\ UNCHANGED <<cfg, procs>>

\* The store orders that are an input of a method of the mapping of entry k
\* of the table of self: a data mapping neither searches nor iterates.
OrdersOf(self, k) ==
  IF Schema(cfg)[self].mappings[k].mapping.kind = "data" THEN {"asc"}
  ELSE StoreOrders

\* mapping.to_owl(owl_instance, obj, property_name, onto) of the mapping of
\* entry k of the table of self; given: onto is the ontology, not None.
MappingToOwl(self, k, obj, given, ord) ==
  /\ MayCall
  /\ self = MapperOf(obj)
  /\ Target \in DOMAIN onto
  /\ k \in DOMAIN Schema(cfg)[self].mappings
  /\ ord \in OrdersOf(self, k)
  /\ AfterMappingToOwl(self, k, obj,
                       Mapping_to_owl(Schema(cfg), Schema(cfg)[self].mappings[k].mapping,
                                      World(onto), Target, obj,
                                      Schema(cfg)[self].mappings[k].name, given, ord,
                                      0))

\* The state after mapping.to_query(obj, name, onto) left r.
AfterMappingToQuery(self, k, obj, r) ==
  /\ Len(r.w.onto) <= MaxInd
  /\ ncalls' = ncalls + 1
  /\ onto' = r.w.onto
  /\ call' = DirectRecord(Schema(cfg)[self].mappings[k].mapping.kind \o ".to_query",
                          self, k, obj, r, Target,
                          IF r.status = "ok" THEN Put(EmptyDict, r.val[1], r.val[2])
                          ELSE EmptyDict,
                          FALSE)
  /\ decoded' = NotDecoded
  /\ UNCHANGED <<cfg, procs>>

\* mapping.to_query(obj, property_name, onto)
MappingToQuery(self, k, obj, given, ord) ==
  /\ MayCall
  /\ self = MapperOf(obj)
  /\ k \in DOMAIN Schema(cfg)[self].mappings
  /\ ord \in OrdersOf(self, k)
  /\ AfterMappingToQuery(self, k, obj,
                         Mapping_to_query(Schema(cfg),
                                          Schema(cfg)[self].mappings[k].mapping,
                                          World(onto), obj,
                                          Schema(cfg)[self].mappings[k].name, given,
                                          ord, 0))

\* mapping.from_owl(owl_instance, onto) on the individual of the last call,
\* of a mapping of the mapper of the individual's class
MappingFromOwl(self, k, given, ord) ==
  /\ Target \in DOMAIN onto
  /\ Schema(cfg)[self].target_class[1] = onto[Target].cls
  /\ k \in DOMAIN Schema(cfg)[self].mappings
  /\ ord \in OrdersOf(self, k)
  /\ decoded.status = "none"
  /\ decoded' = Mapping_from_owl(Schema(cfg), Schema(cfg)[self].mappings[k].mapping,
                                 onto, Target, given, ord, 0)
  /\ UNCHANGED <<cfg, onto, ncalls, call, procs>>

\* The positions of a table.
Positions == 1..4

NextDirect ==
  \/ \E obj \in DirectObjects, ord \in StoreOrders : MayCall /\ ToOwl(obj, ord)
  \/ \E cls \in {"Person", "Dog", "Car"} : CreateIndividual(cls)
  \/ \E self \in MapperNames, k \in Positions, obj \in DirectObjects,
        given \in BOOLEAN, ord \in StoreOrders : MappingToOwl(self, k, obj, given, ord)
  \/ \E self \in MapperNames, k \in Positions, obj \in DirectObjects,
        given \in BOOLEAN, ord \in StoreOrders :
          MappingToQuery(self, k, obj, given, ord)
  \/ \E self \in MapperNames, k \in Positions, given \in BOOLEAN,
        ord \in StoreOrders : MappingFromOwl(self, k, given, ord)

SpecDirect == Init /\ [][NextDirect]_vars

----------------------------------------------------------------------------
(* The interleaving of two Mapper.to_owl calls: every store operation of a *)
(* call, and of the calls nested in it, is a step, and nothing keeps the   *)
(* steps of the other call from coming between two of them.                *)

\* The objects the two calls are made on.
RaceObjects == {1, 2, 7, 12}

\* The state after a store operation of process p left r.
AfterRace(p, r) ==
  /\ Len(r.o) <= MaxInd
  /\ onto' = r.o
  /\ procs' = [procs EXCEPT ![p] = Advance(Schema(cfg), r.t)]
  /\ UNCHANGED <<cfg, ncalls, call, decoded>>

\* Process p calls mapper.to_owl(obj) and runs up to its first store operation.
RaceCall(p, obj) ==
  /\ procs[p].status = "idle"
  /\ AfterRace(p, After(CallMapper(Schema(cfg),
                                   [Idle EXCEPT !.status = "run", !.obj = obj],
                                   MapperOf(obj), obj),
                        onto))

\* A search_one of process p.
RaceSearch(p, ord) ==
  /\ Pending(Schema(cfg), procs[p]) = "search"
  /\ AfterRace(p, Search(Schema(cfg), procs[p], onto, ord))

\* The creation of an individual by process p.
RaceCreate(p) ==
  /\ Pending(Schema(cfg), procs[p]) = "create"
  /\ AfterRace(p, Create(Schema(cfg), procs[p], onto))

\* A setattr of process p.
RaceWrite(p) ==
  /\ Pending(Schema(cfg), procs[p]) = "write"
  /\ AfterRace(p, Write(Schema(cfg), procs[p], onto))

NextRace ==
  \/ \E p \in Procs, obj \in RaceObjects : RaceCall(p, obj)
  \/ \E p \in Procs, ord \in StoreOrders : RaceSearch(p, ord)
  \/ \E p \in Procs : RaceCreate(p)
  \/ \E p \in Procs : RaceWrite(p)

SpecRace == Init /\ [][NextRace]_vars

----------------------------------------------------------------------------
(* What the claims speak of.                                               *)

\* The mapper of the last call, and its table.
CallMappings == Schema(cfg)[call.self].mappings

\* The store property a mapping writes.
PropOf(m) ==
  resolved(IF m.kind = "data" THEN m.target_property ELSE m.relation)

\* The positions of the fields whose mapping builds a query fragment.
Queryable(mappings) == {k \in DOMAIN mappings : mappings[k].mapping.kind # "list"}

\* args is the constraint of field k alone, with the value obj has there.
SingleConstraint(args, mappings, k, obj) ==
  /\ DOMAIN args = {PropOf(mappings[k].mapping)}
  /\ args[PropOf(mappings[k].mapping)] = obj_getattr(obj, mappings[k].name)

\* args constrains every queryable field, the scalar ones to the value obj
\* has there and the reference ones to individuals of the referenced class.
ConjunctiveConstraint(args, mappings, obj, o) ==
  /\ DOMAIN args = {PropOf(mappings[k].mapping) : k \in Queryable(mappings)}
  /\ \A k \in Queryable(mappings) :
       LET m == mappings[k].mapping
       IN IF m.kind = "data"
          THEN args[PropOf(m)] = obj_getattr(obj, mappings[k].name)
          ELSE \A i \in Stored(PropOf(m), args[PropOf(m)]) :
                 /\ i \in DOMAIN o
                 /\ o[i].cls = target_class_of(Schema(cfg), m.mapper_maker)

\* The value of the field flagged as key in the mapper of obj (one flagged).
KeyOf(obj) ==
  LET mappings == Schema(cfg)[MapperOf(obj)].mappings
  IN obj_getattr(obj, mappings[primary_key_of(mappings)].name)

\* The list mapping of a Person.
CarsMapping ==
  LET mappings == Schema(cfg)["PersonMapper"].mappings
  IN mappings[CHOOSE k \in DOMAIN mappings : mappings[k].mapping.kind = "list"].mapping

\* Every field of obj, and of every object reachable from it, is non-empty.
AllFieldsNonEmpty(obj) ==
  \A x \in {obj} \cup Descendants({obj}, {}) :
    \A f \in DOMAIN Heap[x].fields :
      /\ f = "dog" => Heap[x].fields[f] # None
      /\ f = "colors" => Heap[x].fields[f] # {}
      /\ f = "friends" => Heap[x].fields[f].elems # <<>>
      /\ f = "cars" => Heap[x].fields[f] # <<>>

\* The multi-valued reference fields of obj and of the objects reachable from it.
FriendsFields(obj) ==
  {Heap[x].fields.friends :
     x \in {y \in {obj} \cup Descendants({obj}, {}) : Heap[y].class = "Person"}}

\* Every one of them holds a set.
SetValued(obj) == \A f \in FriendsFields(obj) : f.kind = "set"

\* A functional reference of obj, or of an object reachable from it, is None.
HasAbsent(obj) ==
  \E x \in {obj} \cup Descendants({obj}, {}) :
    Heap[x].class = "Person" /\ Heap[x].fields.dog = None

\* The round trip of the last call has given the object back.
GivenBack ==
  /\ decoded.status = "ok"
  /\ call.obj \in DOMAIN ValueOf
  /\ decoded.val = ValueOf[call.obj]

----------------------------------------------------------------------------
(* C1.                                                                     *)

----------------------------------------------------------------------------
(* C2.                                                                     *)

\* C2: with one field flagged as key, a to_owl call on an object with the key
\* value of the object of the call before it returns the same handle and
\* leaves the ontology as it was: nothing created, nothing written.
C2_IdentityStable ==
  [][(/\ cfg.keys = 1
      /\ ncalls' = ncalls + 1
      /\ call.status = "ok"
      /\ call'.status = "ok"
      /\ call'.self = call.self
      /\ KeyOf(call'.obj) = KeyOf(call.obj))
     => (call'.val = call.val /\ onto' = onto)]_vars

----------------------------------------------------------------------------
(* C3.                                                                     *)

\* C3: without a key, the search constrains every queryable field; an
\* individual a call returns as found satisfies every one of the constraints,
\* and a call that finds none returns an individual it has created.
C3_ConjunctiveSearch ==
  (cfg.keys = 0 /\ call.status = "ok") =>
    /\ ConjunctiveConstraint(call.search_args, CallMappings, call.obj, onto)
    /\ call.found =>
         /\ onto[call.val].cls = target_class_of(Schema(cfg), call.self)
         /\ \A p \in DOMAIN call.search_args :
              onto[call.val].props[p] = Stored(p, call.search_args[p])
    /\ ~call.found =>
         /\ call.val > call.before
         /\ onto[call.val].cls = target_class_of(Schema(cfg), call.self)

\* A call without a key that created an individual although one that was
\* there before agrees with the object on a field, not on all.
C3_Witness ==
  /\ cfg.keys = 0
  /\ call.status = "ok"
  /\ ~call.found
  /\ \E i \in 1..call.before :
       /\ onto[i].cls = onto[call.val].cls
       /\ onto[i].props["entity_name"] = onto[call.val].props["entity_name"]
       /\ onto[i].props["entity_name"] # {}

----------------------------------------------------------------------------
(* C4.                                                                     *)

\* The pivot of the set with index k.
PivotAt(pivots, k) ==
  CHOOSE p \in pivots : onto[p].props["sequence_number"] = {k}

\* The items of the pivots decoded in ascending index.
InIndexOrder(pivots) ==
  from_owl_each(Schema(cfg), CarsMapping.item_mapper_maker, onto,
                [k \in 1..Cardinality(pivots) |->
                   getattr(onto, PivotAt(pivots, k - 1), "itemContent")],
                <<>>, "asc", 1)

\* The pivots of every individual carry the indices 0..n-1, and in whatever
\* order the store yields them ListMapping.from_owl gives the elements in
\* ascending index.
AscendingIndex ==
  \A i \in DOMAIN onto :
    LET pivots == onto[i].props["item"]
    IN /\ {onto[p].props["sequence_number"] : p \in pivots}
            = {{k} : k \in 0..(Cardinality(pivots) - 1)}
       /\ \A stored \in Enumerations(pivots) :
            ListMapping_from_pivots(Schema(cfg), CarsMapping, onto, stored,
                                    "asc", 0) = InIndexOrder(pivots)

\* The list that the last call, a ListMapping.to_owl, has encoded.
Encoded ==
  [k \in DOMAIN Heap[call.obj].fields.cars |-> ValueOf[Heap[call.obj].fields.cars[k]]]

\* C4 (as stated): ListMapping.from_owl gives the elements in ascending index
\* in whatever order the store yields the pivots, and after ListMapping.to_owl
\* of a list onto a fresh individual it gives the list itself.
C4_ListOrder ==
  /\ AscendingIndex
  /\ (call.method = "list.to_owl" /\ call.status = "ok" /\ call.fresh) =>
       \A stored \in Enumerations(onto[call.val].props["item"]) :
         ListMapping_from_pivots(Schema(cfg), CarsMapping, onto, stored, "asc", 0)
           = Decoded(Encoded)

\* C4 (amended): ListMapping.from_owl gives the elements in ascending index
\* in whatever order the store yields the pivots; after ListMapping.to_owl of
\* a list onto an individual it gives a list of the same length, and the list
\* itself when every individual that a search of the call returned for an
\* element decodes to that element.
C4_ListOrderClean ==
  /\ AscendingIndex
  /\ (call.method = "list.to_owl" /\ call.status = "ok") =>
       \A stored \in Enumerations(onto[call.val].props["item"]) :
         LET d == ListMapping_from_pivots(Schema(cfg), CarsMapping, onto, stored,
                                          "asc", 0)
         IN /\ d.status = "ok"
            /\ Len(d.val) = Len(Encoded)
            /\ call.clean => d.val = Encoded

\* ListMapping.to_owl has encoded a list of three cars onto an individual
\* that held nothing; the search for the third car has returned the
\* individual of the first, which decodes to the third.
C4_Witness ==
  /\ call.method = "list.to_owl"
  /\ call.status = "ok"
  /\ call.clean
  /\ call.fresh
  /\ cfg.keys = 1
  /\ Len(Heap[call.obj].fields.cars) = 3
  /\ Cardinality(onto[call.val].props["item"]) = 3
  /\ Len(onto) = call.before + 5

----------------------------------------------------------------------------
(* C5.                                                                     *)

\* C5: without a key, to_owl on a mapper with a list field never ends in the
\* NotImplementedError of ListMapping.to_query; when it returns it has
\* emitted the warning, has searched with the constraints of the other
\* fields alone, and returns an individual of the target class.
C5_ListFieldSkipped ==
  (cfg.keys = 0 /\ call.self = "PersonMapper") =>
    /\ call.status # "NotImplementedError"
    /\ call.status = "ok" =>
         /\ call.warned
         /\ PropOf(CarsMapping) \notin DOMAIN call.search_args
         /\ DOMAIN call.search_args =
              {PropOf(CallMappings[k].mapping) :
                 k \in {j \in DOMAIN CallMappings :
                          CallMappings[j].mapping # CarsMapping}}
         /\ call.val \in DOMAIN onto
         /\ onto[call.val].cls = "Person"

\* A Person with cars encoded without a key: warned, and returned.
C5_Witness ==
  /\ cfg.keys = 0
  /\ call.self = "PersonMapper"
  /\ call.status = "ok"
  /\ call.warned
  /\ Heap[call.obj].fields.cars # <<>>

----------------------------------------------------------------------------
(* C6.                                                                     *)

\* C6 (as stated): the constraint is that of the key field when exactly one
\* field is flagged, and the conjunction over the queryable fields in every
\* other case, more than one field flagged included.
C6_ExactlyOneKey ==
  call.status = "ok" =>
    IF Cardinality(Flagged(CallMappings)) = 1
    THEN SingleConstraint(call.search_args, CallMappings,
                          CHOOSE k \in Flagged(CallMappings) : TRUE, call.obj)
    ELSE ConjunctiveConstraint(call.search_args, CallMappings, call.obj, onto)

\* C6 (amended): the constraint is that of the first flagged field of the
\* table when one field or more is flagged, and the conjunction over the
\* queryable fields when none is.
C6_FirstKey ==
  call.status = "ok" =>
    IF Flagged(CallMappings) # {}
    THEN \E k \in Flagged(CallMappings) :
           /\ \A j \in Flagged(CallMappings) : k <= j
           /\ SingleConstraint(call.search_args, CallMappings, k, call.obj)
    ELSE ConjunctiveConstraint(call.search_args, CallMappings, call.obj, onto)

\* A call on a mapper with two flagged fields, the plate first in the table.
C6_Witness ==
  /\ call.status = "ok"
  /\ Cardinality(Flagged(CallMappings)) = 2
  /\ cfg.order = "rev"
  /\ DOMAIN call.search_args = {"plate"}

----------------------------------------------------------------------------
(* C7.                                                                     *)

\* Both calls have returned, for objects with one key value, after searches
\* that found nothing.
BothFoundNothing(p, q) ==
  /\ cfg.keys = 1
  /\ procs[p].status = "ok"
  /\ procs[q].status = "ok"
  /\ procs[p].searched
  /\ procs[q].searched
  /\ procs[p].search_result = None
  /\ procs[q].search_result = None
  /\ MapperOf(procs[p].obj) = MapperOf(procs[q].obj)
  /\ KeyOf(procs[p].obj) = KeyOf(procs[q].obj)

\* C7: when two interleaved calls for one key value have both searched and
\* found nothing, each has created an individual of its own: two distinct
\* individuals of the target class hold the key value.
C7_RaceDuplicates ==
  \A p \in Procs, q \in Procs :
    (p # q /\ BothFoundNothing(p, q)) =>
      /\ procs[p].val # procs[q].val
      /\ onto[procs[p].val].cls = onto[procs[q].val].cls
      /\ onto[procs[p].val].props["entity_name"] = {KeyOf(procs[p].obj)}
      /\ onto[procs[q].val].props["entity_name"] = {KeyOf(procs[q].obj)}

\* Two interleaved calls for one key value, both searches without a match.
C7_Witness ==
  /\ BothFoundNothing(1, 2)
  /\ procs[1].val # procs[2].val

----------------------------------------------------------------------------
(* C8.                                                                     *)

\* C8: to_owl returns on every object whose fields are all non-empty, an
\* object on a reference cycle included, whatever the key and the order of
\* the table (every target class given as a pair).
C8_Terminates ==
  (cfg.target = "pair" /\ call.status # "none" /\ AllFieldsNonEmpty(call.obj))
    => call.status = "ok"

----------------------------------------------------------------------------
(* C9.                                                                     *)

RECURSIVE View(_, _, _)
\* Individual i without its handle: its class and its properties, every
\* individual it refers to replaced by its own view (to depth d).
View(o, i, d) ==
  [cls |-> o[i].cls,
   props |-> [p \in Props |->
                IF p \in ObjectProps
                THEN (IF d = 0 THEN Cardinality(o[i].props[p])
                      ELSE {View(o, j, d - 1) : j \in o[i].props[p]})
                ELSE o[i].props[p]]]

\* The ontology up to the handles: how many individuals have each view.
Shape(o) ==
  LET views == {View(o, i, 2) : i \in DOMAIN o}
  IN [v \in views |-> Cardinality({i \in DOMAIN o : View(o, i, 2) = v})]

\* The scalar constraints of a search.
ScalarArgs(args) == [p \in (DOMAIN args) \ ObjectProps |-> args[p]]

\* Two to_owl calls with the same outcome up to the handles (the constraint
\* of a call that raised has not been searched with, and is not compared).
SameOutcome(a, b) ==
  /\ a.status = b.status
  /\ a.found = b.found
  /\ a.status = "ok" =>
       /\ DOMAIN a.search_args = DOMAIN b.search_args
       /\ ScalarArgs(a.search_args) = ScalarArgs(b.search_args)
  /\ Shape(a.w.onto) = Shape(b.w.onto)

\* The configuration with every table in the other order.
Flip(c) == [c EXCEPT !.order = IF @ = "fwd" THEN "rev" ELSE "fwd"]

\* C9: to_owl on an object has the same outcome with the tables in one
\* order and in the other: the same constraint, found or created alike, and
\* the same ontology up to the handles of the new individuals (every target
\* class given as a pair).
C9_OrderIndependent ==
  \A obj \in Objects, ord \in StoreOrders :
    cfg.target = "pair" =>
    SameOutcome(Mapper_to_owl(Schema(cfg), MapperOf(obj), World(onto), obj, ord, 0),
                Mapper_to_owl(Schema(Flip(cfg)), MapperOf(obj), World(onto), obj,
                              ord, 0))

----------------------------------------------------------------------------
(* C10.                                                                    *)

\* C10: with one field flagged as key in every mapper and the calls made one
\* at a time, no two individuals of a class hold the same key value.
C10_KeyUnique ==
  cfg.keys = 1 =>
    \A i \in DOMAIN onto, j \in DOMAIN onto :
      (/\ onto[i].cls = onto[j].cls
       /\ onto[i].cls \in {"Dog", "Car", "Person"}
       /\ onto[i].props["entity_name"] # {}
       /\ onto[i].props["entity_name"] = onto[j].props["entity_name"]) => i = j

====
